---------------------------- MODULE Spec2Model ----------------------------
(***************************************************************************)
(* A model of ninja/operation.py: Operation / AsyncOperation (the          *)
(* per-request pipeline auth -> CSRF -> parameter resolution -> handler -> *)
(* response shaping) and PathView (registration, method dispatch, the      *)
(* sync and async views).                                                  *)
(*                                                                         *)
(* Python values are tagged records [t |-> <type>, ...] so that values of  *)
(* different Python types can be compared.                                 *)
(***************************************************************************)
EXTENDS Integers, Sequences, FiniteSets, TLC

(***************************************************************************)
(* Bounds of the model.                                                    *)
(***************************************************************************)
\* Operations registered on the one PathView.
MaxOps == 2

(***************************************************************************)
(* Python values.                                                          *)
(***************************************************************************)
None == [t |-> "None"]
NOT_SET == [t |-> "NOT_SET"]
PyInt(n) == [t |-> "int", v |-> n]
PyStr(s) == [t |-> "str", v |-> s]
PyTuple(s) == [t |-> "tuple", v |-> s]
PyList(s) == [t |-> "list", v |-> s]
PyDict(f) == [t |-> "dict", v |-> f]
\* An auth callback, a callable named n.
Callable(n) == [t |-> "callable", name |-> n]
\* The identity callback n returns when it authenticates the request.
Identity(n) == [t |-> "identity", by |-> n]
\* request.auth before any callback has set it: the attribute is absent.
Unset == [t |-> "unset"]
\* A declared return type.
Type(n) == [t |-> "type", name |-> n]

IsNone(x) == x.t = "None"
IsNotSet(x) == x.t = "NOT_SET"

\* isinstance(x, Sequence)
IsSequence(x) == x.t \in {"list", "tuple"}

\* bool(x) of the values that reach a truth test.
Truthy(x) ==
    CASE x.t \in {"list", "tuple"} -> Len(x.v) > 0
      [] x.t = "None" -> FALSE
      [] OTHER -> TRUE

(***************************************************************************)
(* Responses.                                                              *)
(***************************************************************************)
\* ninja.responses.Response(body, status=status)
Response(body, status) == [t |-> "Response", status |-> status, body |-> body]
\* A django HttpResponse a handler built itself; id tells the objects apart.
HttpResponse(id, status) == [t |-> "HttpResponse", id |-> id, status |-> status]
\* HttpResponseNotAllowed(allowed_methods, content=b"Method not allowed")
HttpResponseNotAllowed(allowed) ==
    [t |-> "HttpResponseNotAllowed", status |-> 405, allow |-> allowed,
     content |-> "Method not allowed"]
\* The failure response of the CSRF capability.
CsrfFailure == [t |-> "CsrfFailure", status |-> 403]
\* What calling an async def returns when nobody awaits it.
Coroutine == [t |-> "coroutine"]
NoResponse == [t |-> "none"]

\* isinstance(x, HttpResponse)
IsHttpResponse(x) == x.t \in {"HttpResponse", "Response", "HttpResponseNotAllowed"}


(***************************************************************************)
(* The inputs: handlers, auth parameters, parameter models, response       *)
(* declarations, applications and requests.                                *)
(***************************************************************************)
HttpMethods == {"GET", "POST", "DELETE"}
\* django.VERSION of the host: before and from 3.1.
DjangoVersions == {<<3, 0>>, <<3, 1>>}
\* Python's tuple comparison a < b on pairs.
VersionLess(a, b) == a[1] < b[1] \/ (a[1] = b[1] /\ a[2] < b[2])

\* The caller's status -> type mapping objects, by name, as the caller wrote them.
MappingNames == {"codes"}
DeclaredMapping(m) == (200 :> Type("int")) @@ (201 :> Type("str"))
\* A reference to a dict object (Python passes and stores dicts by reference).
DictRef(m) == [t |-> "dictref", id |-> m]

\* The route declarations add() is called with.
Declarations ==
    { [methods |-> {"GET"}, view_func |-> "list_items", coroutine |-> FALSE,
       auth |-> NOT_SET, models |-> <<>>, response |-> None],
      [methods |-> {"GET", "POST"}, view_func |-> "item", coroutine |-> FALSE,
       auth |-> PyList(<<Callable("A"), Callable("B"), Callable("C")>>),
       models |-> <<"path", "body">>, response |-> Type("int")],
      [methods |-> {"POST"}, view_func |-> "create_item", coroutine |-> TRUE,
       auth |-> Callable("A"), models |-> <<"query">>,
       response |-> DictRef("codes")],
      [methods |-> {"GET"}, view_func |-> "get_item", coroutine |-> TRUE,
       auth |-> None, models |-> <<"path">>, response |-> Type("str")],
      [methods |-> {"POST"}, view_func |-> "ping", coroutine |-> FALSE,
       auth |-> PyList(<<>>), models |-> <<>>, response |-> None] }

\* The applications (NinjaAPI instances) a PathView is attached to.
Apis == {[t |-> "NinjaAPI", csrf |-> csrf, auth |-> auth] :
             csrf \in BOOLEAN, auth \in {NOT_SET, Callable("B")}}
NoApi == [t |-> "None"]

VARIABLES
    django_version,  \* django.VERSION
    mappings,        \* the caller's mapping objects: name -> (status -> type or schema)
    operations,      \* PathView.operations
    is_async,        \* PathView.is_async
    api,             \* PathView.api
    views,           \* the views get_view has returned to the router
    csrf_exempt,     \* the view functions marked csrf_exempt
    req,             \* the request being handled
    other            \* a second request in flight that is not running now:
                     \* suspended at an await, or on another thread

vars == <<django_version, mappings, operations, is_async, api, views,
          csrf_exempt, req, other>>

(***************************************************************************)
(* Operation.__init__ and its helpers.                                     *)
(***************************************************************************)
\* Operation._set_auth: the new auth_callbacks.
_set_auth(auth_callbacks, auth) ==
    IF ~IsNone(auth) /\ ~IsNotSet(auth)
    THEN IF IsSequence(auth) /\ Truthy(auth) THEN auth.v ELSE <<auth>>
    ELSE auth_callbacks

\* The class type("NinjaResponseSchema", (Schema,), {"response": T}) builds.
NinjaResponseSchema(T) == [t |-> "NinjaResponseSchema", response |-> T]

\* Operation._create_response_model
_create_response_model(response_param) ==
    IF IsNone(response_param) THEN None ELSE NinjaResponseSchema(response_param)

\* Operation._create_response_model_multiple: the dict, rewritten in place.
_create_response_model_multiple(d) ==
    [status \in DOMAIN d |-> _create_response_model(d[status])]

\* The Operation object __init__ builds from a declaration.
NewOperation(decl, async) ==
    [methods |-> decl.methods,
     view_func |-> decl.view_func,
     is_async |-> async,
     api |-> NoApi,
     auth_param |-> decl.auth,
     auth_callbacks |-> _set_auth(<<>>, decl.auth),
     models |-> decl.models,
     response_model |-> IF decl.response.t = "dictref" THEN decl.response
                        ELSE _create_response_model(decl.response)]

\* The caller's mappings after Operation.__init__ on a declaration.
MappingsAfterInit(decl) ==
    IF decl.response.t = "dictref"
    THEN [mappings EXCEPT ![decl.response.id] = _create_response_model_multiple(@)]
    ELSE mappings

(***************************************************************************)
(* The request being handled.                                              *)
(***************************************************************************)
IdleRequest ==
    [pc |-> "idle",          \* idle, auth, csrf, resolve, handler, done
     method |-> "",          \* request.method
     view |-> "",            \* the view the router called
     op |-> 0,               \* index in operations of the Operation found
     via |-> "",             \* how the view invoked run: call, await, sync_to_async
     auth |-> Unset,         \* request.auth
     calls |-> <<>>,         \* the auth callbacks invoked, in order, with their results
     csrf |-> "not_run",     \* check_csrf: not_run, passed, failed
     resolved |-> <<>>,      \* the models resolve was called on, in order, with the outcomes
     values |-> <<>>,        \* _get_values: values
     errors |-> <<>>,        \* _get_values: errors
     args |-> None,          \* the keyword arguments view_func was called with
     result |-> None,        \* what view_func returned
     response |-> NoResponse,\* what the view returned
     raised |-> "",          \* the exception that left the view
     stages |-> <<>>]        \* the stages entered, in order

\* The stages of Operation.run, in the order of the pipeline.
StageOrder == <<"auth", "csrf", "resolve", "handler", "shape">>

\* The view returns a response.
Returns(r, response) == [r EXCEPT !.pc = "done", !.response = response]
\* An exception leaves the view.
Raises(r, exception) == [r EXCEPT !.pc = "done", !.raised = exception]
\* A stage is entered.
Enters(r, stage) == [r EXCEPT !.stages = Append(@, stage)]

NoRequestInFlight == req.pc = "idle"

(***************************************************************************)
(* PathView: add, set_api_instance, get_view.                              *)
(***************************************************************************)
\* AsyncOperation.__init__ raises on a django before 3.1.
AsyncSupported == ~VersionLess(django_version, <<3, 1>>)

\* add with is_async assigned from the handler at hand instead of only ever
\* set: a synchronous handler added later clears the flag.
add_IsAsyncAssigned(decl) ==
    /\ NoRequestInFlight
    /\ Len(operations) < MaxOps
    /\ decl.coroutine => AsyncSupported
    /\ is_async' = decl.coroutine
    /\ operations' = Append(operations, NewOperation(decl, decl.coroutine))
    /\ mappings' = MappingsAfterInit(decl)
    /\ UNCHANGED <<other, api, django_version, views, csrf_exempt, req>>

\* PathView.add with a declaration whose Operation is constructed and appended.
add(decl) ==
    /\ NoRequestInFlight
    /\ Len(operations) < MaxOps
    /\ decl.coroutine => AsyncSupported
    /\ is_async' = (is_async \/ decl.coroutine)
    /\ operations' = Append(operations, NewOperation(decl, decl.coroutine))
    /\ mappings' = MappingsAfterInit(decl)
    /\ UNCHANGED <<other, api, django_version, views, csrf_exempt, req>>

\* PathView.add of an async handler on a django before 3.1: is_async is set,
\* then AsyncOperation.__init__ raises before anything else happens.
add_raises(decl) ==
    /\ NoRequestInFlight
    /\ Len(operations) < MaxOps
    /\ decl.coroutine /\ ~AsyncSupported
    /\ is_async' = TRUE
    /\ UNCHANGED <<other, api, django_version, mappings, operations, views,
                   csrf_exempt, req>>

\* Operation.set_api_instance without the test of auth_param: the
\* application's auth replaces whatever the Operation declared.
OperationSetApiInstance_AlwaysInherit(op, instance) ==
    [op EXCEPT !.api = instance,
               !.auth_callbacks =
                   IF ~IsNotSet(instance.auth)
                   THEN _set_auth(@, instance.auth) ELSE @]

\* Operation.set_api_instance
OperationSetApiInstance(op, instance) ==
    [op EXCEPT !.api = instance,
               !.auth_callbacks =
                   IF IsNotSet(op.auth_param) /\ ~IsNotSet(instance.auth)
                   THEN _set_auth(@, instance.auth) ELSE @]

\* PathView.set_api_instance
set_api_instance(instance) ==
    /\ NoRequestInFlight
    /\ api' = instance
    /\ operations' = [i \in DOMAIN operations |->
                          OperationSetApiInstance(operations[i], instance)]
    /\ UNCHANGED <<other, django_version, mappings, is_async, views, csrf_exempt,
                   req>>

\* The view PathView.get_view picks.
ViewFor(async) == IF async THEN "_async_view" ELSE "_sync_view"

\* PathView.get_view
get_view ==
    /\ NoRequestInFlight
    /\ views' = views \cup {ViewFor(is_async)}
    /\ csrf_exempt' = csrf_exempt \cup {ViewFor(is_async)}
    /\ UNCHANGED <<other, api, django_version, mappings, operations, is_async, req>>

(***************************************************************************)
(* PathView._find_operation and the two views.                             *)
(***************************************************************************)
\* The positions from i on of the Operations whose methods contain method.
MatchesFrom(ops, i, method) == {k \in i..Len(ops) : method \in ops[k].methods}

\* FindOperationFrom with the scan not stopped at a match: the last matching
\* Operation is returned.
FindOperationFrom_LastMatch(ops, i, method, allowed_methods) ==
    LET matches == MatchesFrom(ops, i, method)
    IN IF matches = {}
       THEN [operation |-> 0,
             error |-> HttpResponseNotAllowed(
                 allowed_methods \cup UNION {ops[k].methods : k \in i..Len(ops)})]
       ELSE [operation |-> CHOOSE k \in matches : \A j \in matches : j <= k,
             error |-> None]

\* FindOperationFrom with allowed_methods assigned instead of updated: the
\* 405 lists the methods of the last Operation only.
FindOperationFrom_AllowedAssigned(ops, i, method, allowed_methods) ==
    LET matches == MatchesFrom(ops, i, method)
    IN IF matches = {}
       THEN [operation |-> 0,
             error |-> HttpResponseNotAllowed(
                 IF i <= Len(ops) THEN ops[Len(ops)].methods ELSE allowed_methods)]
       ELSE [operation |-> CHOOSE k \in matches : \A j \in matches : k <= j,
             error |-> None]

\* The loop of _find_operation from index i on, allowed_methods so far.
RECURSIVE FindOperationFrom(_, _, _, _)
FindOperationFrom(ops, i, method, allowed_methods) ==
    IF i > Len(ops)
    THEN [operation |-> 0, error |-> HttpResponseNotAllowed(allowed_methods)]
    ELSE IF method \in ops[i].methods
         THEN [operation |-> i, error |-> None]
         ELSE FindOperationFrom(ops, i + 1, method,
                                allowed_methods \cup ops[i].methods)

\* PathView._find_operation: (operation, error), the operation as its index.
_find_operation(ops, method) == FindOperationFrom(ops, 1, method, {})

\* The request as Operation.run receives it.
Dispatched(method, view, found, via) ==
    [IdleRequest EXCEPT !.pc = "auth", !.method = method, !.view = view,
                        !.op = found.operation, !.via = via]

\* PathView._sync_view: operation.run is called; calling an AsyncOperation's
\* run builds a coroutine and runs none of it.
_sync_view(method) ==
    /\ NoRequestInFlight
    /\ "_sync_view" \in views
    /\ LET found == _find_operation(operations, method)
           r == Dispatched(method, "_sync_view", found, "call")
       IN req' = IF Truthy(found.error) THEN Returns(r, found.error)
                 ELSE IF operations[found.operation].is_async
                      THEN Returns(r, Coroutine)
                      ELSE r
    /\ UNCHANGED <<other, api, django_version, mappings, operations, is_async, views,
                   csrf_exempt>>

\* _async_view without the test of operation.is_async: every run is awaited
\* directly, a synchronous one on the event loop's thread.
_async_view_DirectAwait(method) ==
    /\ NoRequestInFlight
    /\ "_async_view" \in views
    /\ LET found == _find_operation(operations, method)
           r == Dispatched(method, "_async_view", found, "await")
       IN req' = IF Truthy(found.error) THEN Returns(r, found.error) ELSE r
    /\ UNCHANGED <<other, api, django_version, mappings, operations, is_async, views,
                   csrf_exempt>>

\* PathView._async_view: run is awaited, through sync_to_async when the
\* Operation is synchronous.
_async_view(method) ==
    /\ NoRequestInFlight
    /\ "_async_view" \in views
    /\ LET found == _find_operation(operations, method)
           via == IF found.operation > 0 /\ operations[found.operation].is_async
                  THEN "await" ELSE "sync_to_async"
           r == Dispatched(method, "_async_view", found, via)
       IN req' = IF Truthy(found.error) THEN Returns(r, found.error) ELSE r
    /\ UNCHANGED <<other, api, django_version, mappings, operations, is_async, views,
                   csrf_exempt>>

(***************************************************************************)
(* Operation.run / AsyncOperation.run, one action per call they make.      *)
(***************************************************************************)
Operation == operations[req.op]

Unauthorized == Response(PyDict([detail |-> PyStr("Unauthorized")]), 401)

\* What an auth callback may return for a request.
CallbackResults(callback) == {None, Identity(callback.name)}

\* Operation._run_checks up to the auth stage: _run_authentication runs only
\* when auth_callbacks is truthy.
AuthConfigured(op) == Truthy(PyList(op.auth_callbacks))

\* _run_checks with _run_authentication called whatever auth_callbacks is:
\* the loop over no callbacks falls through to the 401.
_run_checks_no_auth_Authenticates ==
    /\ req.pc = "auth"
    /\ ~AuthConfigured(Operation)
    /\ req' = Returns(Enters(req, "auth"), Unauthorized)
    /\ UNCHANGED <<other, api, django_version, mappings, operations, is_async, views,
                   csrf_exempt>>

\* _run_checks with no auth callbacks: straight to the CSRF stage.
_run_checks_no_auth ==
    /\ req.pc = "auth"
    /\ ~AuthConfigured(Operation)
    /\ req' = [req EXCEPT !.pc = "csrf"]
    /\ UNCHANGED <<other, api, django_version, mappings, operations, is_async, views,
                   csrf_exempt>>

\* AfterCallback with the loop not left on a non-None result: every callback
\* runs and the last identity stays on the request.
AfterCallback_NoEarlyReturn(r, callbacks, i, result) ==
    LET called == [r EXCEPT !.calls = Append(@, [callback |-> callbacks[i],
                                                  result |-> result])]
        seen == IF ~IsNone(result) THEN [called EXCEPT !.auth = result]
                ELSE called
    IN IF i < Len(callbacks) THEN seen
       ELSE IF seen.auth = Unset THEN Returns(seen, Unauthorized)
            ELSE [seen EXCEPT !.pc = "csrf"]

\* AfterCallback with the 401 forgotten: the request goes on when every
\* callback returned None.
AfterCallback_FailOpen(r, callbacks, i, result) ==
    LET called == [r EXCEPT !.calls = Append(@, [callback |-> callbacks[i],
                                                  result |-> result])]
    IN IF ~IsNone(result)
       THEN [called EXCEPT !.auth = result, !.pc = "csrf"]
       ELSE IF i = Len(callbacks)
            THEN [called EXCEPT !.pc = "csrf"]
            ELSE called

\* The request after callback number i returned result.
AfterCallback(r, callbacks, i, result) ==
    LET called == [r EXCEPT !.calls = Append(@, [callback |-> callbacks[i],
                                                  result |-> result])]
    IN IF ~IsNone(result)
       THEN [called EXCEPT !.auth = result, !.pc = "csrf"]
       ELSE IF i = Len(callbacks)
            THEN Returns(called, Unauthorized)
            ELSE called

\* Operation._run_authentication: one iteration of the loop over
\* auth_callbacks; the 401 follows the last callback that returns None.
_run_authentication ==
    /\ req.pc = "auth"
    /\ AuthConfigured(Operation)
    /\ LET callbacks == Operation.auth_callbacks
           i == Len(req.calls) + 1
           r == IF i = 1 THEN Enters(req, "auth") ELSE req
       IN \/ /\ callbacks[i].t = "callable"
             /\ \E result \in CallbackResults(callbacks[i]) :
                    req' = AfterCallback(r, callbacks, i, result)
          \/ /\ callbacks[i].t # "callable"
             /\ req' = Raises(r, "TypeError")
    /\ UNCHANGED <<other, api, django_version, mappings, operations, is_async, views,
                   csrf_exempt>>

\* AfterCsrf with the error of check_csrf dropped: the request goes on.
AfterCsrf_ErrorDropped(r, passed) ==
    [r EXCEPT !.csrf = IF passed THEN "passed" ELSE "failed", !.pc = "resolve"]

\* The request after check_csrf returned: None (passed) or its failure response.
AfterCsrf(r, passed) ==
    IF passed THEN [r EXCEPT !.csrf = "passed", !.pc = "resolve"]
    ELSE Returns([r EXCEPT !.csrf = "failed"], CsrfFailure)

\* Operation._run_checks, the CSRF stage.  self.api is None until
\* set_api_instance: reading None.csrf raises AttributeError.
_run_checks_csrf ==
    /\ req.pc = "csrf"
    /\ \/ /\ IsNone(Operation.api)
          /\ req' = Raises(req, "AttributeError")
       \/ /\ ~IsNone(Operation.api)
          /\ ~Operation.api.csrf
          /\ req' = [req EXCEPT !.pc = "resolve"]
       \/ /\ ~IsNone(Operation.api)
          /\ Operation.api.csrf
          /\ \E passed \in BOOLEAN :
                 req' = AfterCsrf(Enters(req, "csrf"), passed)
    /\ UNCHANGED <<other, api, django_version, mappings, operations, is_async, views,
                   csrf_exempt>>

(***************************************************************************)
(* Parameter resolution.                                                   *)
(***************************************************************************)
\* The handler argument a parameter model owns, by the model's source tag.
ArgumentOf(model) ==
    CASE model = "path" -> "item_id"
      [] model = "query" -> "q"
      [] model = "body" -> "name"

\* One item of ValidationError.errors(): the location within the source.
FieldError(loc) == [loc |-> loc, msg |-> "field required",
                    type |-> "value_error.missing"]

\* model.resolve(request, path_params): the data, or the errors of the
\* ValidationError it raises (one or two items).
ResolveOutcomes(model) ==
    { [ok |-> TRUE, data |-> (ArgumentOf(model) :> PyInt(1))],
      [ok |-> FALSE, errors |-> <<FieldError(<<ArgumentOf(model)>>)>>],
      [ok |-> FALSE, errors |-> <<FieldError(<<ArgumentOf(model)>>),
                                  FieldError(<<ArgumentOf(model), "sub">>)>>] }

\* dict.update: the entries of data replace those of values.
Update(values, data) == data @@ values

\* The except block of _get_values: each item's loc prefixed with model._in.
PrefixedErrors(model, errors) ==
    [k \in DOMAIN errors |-> [errors[k] EXCEPT !.loc = <<model>> \o @]]

\* AfterResolve with errors assigned instead of extended: only the errors of
\* the last failing model are kept.
AfterResolve_ErrorsAssigned(r, model, outcome) ==
    LET tried == [r EXCEPT !.resolved = Append(@, [model |-> model,
                                                    outcome |-> outcome])]
    IN IF outcome.ok
       THEN [tried EXCEPT !.values = outcome.data @@ @]
       ELSE [tried EXCEPT !.errors =
                 [k \in DOMAIN outcome.errors |->
                     [outcome.errors[k] EXCEPT !.loc = <<model>> \o @]]]

\* The request after one iteration of the loop of _get_values.
AfterResolve(r, model, outcome) ==
    LET tried == [r EXCEPT !.resolved = Append(@, [model |-> model,
                                                    outcome |-> outcome])]
    IN IF outcome.ok
       THEN [tried EXCEPT !.values = Update(@, outcome.data)]
       ELSE [tried EXCEPT !.errors = @ \o PrefixedErrors(model, outcome.errors)]

\* Operation._get_values: one iteration of the loop over self.models.
_get_values ==
    /\ req.pc = "resolve"
    /\ Len(req.resolved) < Len(Operation.models)
    /\ LET model == Operation.models[Len(req.resolved) + 1]
           r == IF req.resolved = <<>> THEN Enters(req, "resolve") ELSE req
       IN \E outcome \in ResolveOutcomes(model) :
              req' = AfterResolve(r, model, outcome)
    /\ UNCHANGED <<other, api, django_version, mappings, operations, is_async, views,
                   csrf_exempt>>

\* The request when _get_values has returned (values, errors): the 422, or
\* the call of view_func.
AfterGetValues(r) ==
    IF Truthy(PyList(r.errors))
    THEN Returns(r, Response(PyDict([detail |-> PyList(r.errors)]), 422))
    ELSE [Enters(r, "handler") EXCEPT !.pc = "handler", !.args = PyDict(r.values)]

\* Operation.run from the return of _get_values to the call of view_func.
run_call_view_func ==
    /\ req.pc = "resolve"
    /\ Len(req.resolved) = Len(Operation.models)
    /\ req' = AfterGetValues(IF req.resolved = <<>>
                             THEN Enters(req, "resolve") ELSE req)
    /\ UNCHANGED <<other, api, django_version, mappings, operations, is_async, views,
                   csrf_exempt>>

(***************************************************************************)
(* The handler and response shaping.                                       *)
(***************************************************************************)
\* What a handler may return: a response of its own, a payload, a
\* (status, payload) pair, a longer tuple.
HandlerResults ==
    { HttpResponse("raw", 302), PyInt(1), PyStr("x"),
      PyTuple(<<PyInt(201), PyInt(1)>>), PyTuple(<<PyInt(201), PyStr("x")>>),
      PyTuple(<<PyInt(404), PyInt(1)>>),
      PyTuple(<<PyInt(1), PyInt(2), PyInt(3)>>) }

\* The outcome of a computation: a value, or an exception.
Ok(v) == [ok |-> TRUE, v |-> v]
Error(exception) == [ok |-> FALSE, exception |-> exception]

\* response_model.from_orm(ResponseObject(result)).dict()["response"]: the
\* payload validated and coerced to the declared type.  An int is accepted
\* for a str and becomes its decimal text; a payload without a "response"
\* attribute is no instance of a wrapped schema.
FromOrm(response_model, result) ==
    LET T == response_model.response
    IN CASE T = Type("int") /\ result.t = "int" -> Ok(result)
         [] T = Type("str") /\ result.t = "str" -> Ok(result)
         [] T = Type("str") /\ result.t = "int" -> Ok(PyStr(ToString(result.v)))
         [] OTHER -> Error("ValidationError")

\* self.response_model, a dict attribute read through its reference.
ResponseModelOf(op) ==
    IF op.response_model.t = "dictref"
    THEN PyDict(mappings[op.response_model.id])
    ELSE op.response_model

\* ShapedResponse with the status of a (status, payload) pair not used: the
\* payload is shaped and served with status 200.
ShapedResponse_StatusIgnored(response_model, result) ==
    LET pair == result.t = "tuple" /\ Len(result.v) = 2
        payload == IF pair THEN result.v[2] ELSE result
        keyed == response_model.t = "dict"
    IN IF keyed /\ 200 \notin DOMAIN response_model.v
       THEN Error("ConfigError")
       ELSE LET schema == IF keyed THEN response_model.v[200]
                          ELSE response_model
                shaped == FromOrm(schema, payload)
            IN IF shaped.ok THEN Ok(Response(shaped.v, 200)) ELSE shaped

\* ShapedResponse with an undeclared status served unshaped instead of
\* raising ConfigError.
ShapedResponse_UndeclaredServed(response_model, result) ==
    LET pair == result.t = "tuple" /\ Len(result.v) = 2
        status == IF pair THEN result.v[1].v ELSE 200
        payload == IF pair THEN result.v[2] ELSE result
        keyed == response_model.t = "dict"
    IN IF keyed /\ status \notin DOMAIN response_model.v
       THEN Ok(Response(payload, status))
       ELSE LET schema == IF keyed THEN response_model.v[status]
                          ELSE response_model
                shaped == FromOrm(schema, payload)
            IN IF shaped.ok THEN Ok(Response(shaped.v, status)) ELSE shaped

\* Lines 90-103 of _create_response: the status and payload of the result,
\* the schema for the status, the shaped response.
ShapedResponse(response_model, result) ==
    LET pair == result.t = "tuple" /\ Len(result.v) = 2
        status == IF pair THEN result.v[1].v ELSE 200
        payload == IF pair THEN result.v[2] ELSE result
        keyed == response_model.t = "dict"
    IN IF keyed /\ status \notin DOMAIN response_model.v
       THEN Error("ConfigError")
       ELSE LET schema == IF keyed THEN response_model.v[status]
                          ELSE response_model
            IN IF IsNone(schema) THEN Error("AttributeError")
               ELSE LET shaped == FromOrm(schema, payload)
                    IN IF shaped.ok THEN Ok(Response(shaped.v, status))
                       ELSE shaped

\* _create_response with the (status, payload) pair taken apart before the
\* test for a missing schema.
_create_response_PairFirst(response_model, result) ==
    LET pair == result.t = "tuple" /\ Len(result.v) = 2
    IN IF IsHttpResponse(result) THEN Ok(result)
       ELSE IF IsNone(response_model)
            THEN IF pair THEN Ok(Response(result.v[2], result.v[1].v))
                 ELSE Ok(Response(result, 200))
            ELSE ShapedResponse(response_model, result)

\* _create_response without the pass-through of a handler's own response.
_create_response_NoPassThrough(response_model, result) ==
    IF IsNone(response_model) THEN Ok(Response(result, 200))
    ELSE ShapedResponse(response_model, result)

\* Operation._create_response
_create_response(response_model, result) ==
    IF IsHttpResponse(result) THEN Ok(result)
    ELSE IF IsNone(response_model) THEN Ok(Response(result, 200))
    ELSE ShapedResponse(response_model, result)

\* The request after view_func returned result.
AfterViewFunc(r, op, result) ==
    LET created == _create_response(ResponseModelOf(op), result)
        shaping == Enters([r EXCEPT !.result = result], "shape")
    IN IF created.ok THEN Returns(shaping, created.v)
       ELSE Raises(shaping, created.exception)

\* run_create_response with line 98 written as an assignment to
\* self.response_model: the schema picked for one request stays on the
\* Operation.
run_create_response_SchemaKeptOnSelf ==
    /\ req.pc = "handler"
    /\ \E result \in HandlerResults :
           LET model == ResponseModelOf(Operation)
               pair == result.t = "tuple" /\ Len(result.v) = 2
               status == IF pair THEN result.v[1].v ELSE 200
               picks == /\ ~IsHttpResponse(result)
                        /\ model.t = "dict"
                        /\ status \in DOMAIN model.v
           IN /\ req' = AfterViewFunc(req, Operation, result)
              /\ operations' =
                     IF picks
                     THEN [operations EXCEPT
                               ![req.op].response_model = model.v[status]]
                     ELSE operations
    /\ UNCHANGED <<other, api, django_version, mappings, is_async, views,
                   csrf_exempt>>

\* Operation.run / AsyncOperation.run from the return of view_func (for an
\* AsyncOperation: from the resumption of its await) to the end.
run_create_response ==
    /\ req.pc = "handler"
    /\ \E result \in HandlerResults :
           req' = AfterViewFunc(req, Operation, result)
    /\ UNCHANGED <<other, api, django_version, mappings, operations, is_async, views,
                   csrf_exempt>>

\* The view has returned (or raised) to the router; the request is over.
request_finished ==
    /\ req.pc = "done"
    /\ req' = IdleRequest
    /\ UNCHANGED <<other, api, django_version, mappings, operations, is_async, views,
                   csrf_exempt>>

(***************************************************************************)
(* The specification.                                                      *)
(***************************************************************************)
Init ==
    /\ django_version \in DjangoVersions
    /\ mappings = [m \in MappingNames |-> DeclaredMapping(m)]
    /\ operations = <<>>
    /\ is_async = FALSE
    /\ api = Unset
    /\ views = {}
    /\ csrf_exempt = {}
    /\ req = IdleRequest
    /\ other = IdleRequest

Next ==
    \/ \E decl \in Declarations : add(decl)
    \/ \E decl \in Declarations : add_raises(decl)
    \/ \E instance \in Apis : set_api_instance(instance)
    \/ get_view
    \/ \E method \in HttpMethods : _sync_view(method)
    \/ \E method \in HttpMethods : _async_view(method)
    \/ _run_checks_no_auth
    \/ _run_authentication
    \/ _run_checks_csrf
    \/ _get_values
    \/ run_call_view_func
    \/ run_create_response
    \/ request_finished

Spec == Init /\ [][Next]_vars

(***************************************************************************)
(* Concurrent requests on a PathView that is set up and serving: two        *)
(* requests are in flight, one of them running; the scheduler may switch    *)
(* between them at any step (an await, a thread of sync_to_async or of the  *)
(* host).                                                                  *)
(***************************************************************************)
DeclarationOf(view_func) == CHOOSE d \in Declarations : d.view_func = view_func

\* The paths served, as the handlers added, in order.
ServedPaths ==
    { <<"item">>, <<"create_item", "list_items">>, <<"ping", "get_item">> }

\* The state after add for each handler of path, set_api_instance(instance)
\* when instance is an application, and get_view.
ServingState(path, instance) ==
    LET decls == [i \in DOMAIN path |-> DeclarationOf(path[i])]
        async == \E i \in DOMAIN decls : decls[i].coroutine
        built == [i \in DOMAIN decls |->
                     NewOperation(decls[i], decls[i].coroutine)]
    IN /\ django_version = <<3, 1>>
       /\ mappings = [m \in MappingNames |->
              IF \E i \in DOMAIN decls : decls[i].response = DictRef(m)
              THEN _create_response_model_multiple(DeclaredMapping(m))
              ELSE DeclaredMapping(m)]
       /\ operations = IF IsNone(instance) THEN built
                       ELSE [i \in DOMAIN built |->
                                OperationSetApiInstance(built[i], instance)]
       /\ is_async = async
       /\ api = IF IsNone(instance) THEN Unset ELSE instance
       /\ views = {ViewFor(async)}
       /\ csrf_exempt = {ViewFor(async)}

InitServing ==
    /\ \E path \in ServedPaths, instance \in Apis \cup {NoApi} :
           ServingState(path, instance)
    /\ req = IdleRequest
    /\ other = IdleRequest

\* The scheduler switches between the two requests in flight.
switch ==
    /\ req.pc # "idle" \/ other.pc # "idle"
    /\ req' = other
    /\ other' = req
    /\ UNCHANGED <<api, django_version, mappings, operations, is_async, views,
                   csrf_exempt>>

NextServing ==
    \/ \E method \in HttpMethods : _sync_view(method)
    \/ \E method \in HttpMethods : _async_view(method)
    \/ _run_checks_no_auth
    \/ _run_authentication
    \/ _run_checks_csrf
    \/ _get_values
    \/ run_call_view_func
    \/ run_create_response
    \/ request_finished
    \/ switch

SpecConcurrent == InitServing /\ [][NextServing]_vars

(***************************************************************************)
(* The properties.                                                         *)
(***************************************************************************)
\* An Operation's run is handling the request, or has handled it.
InRun == req.pc # "idle" /\ req.op > 0
Done == req.pc = "done"
\* The positions of the auth callbacks that returned an identity.
Authenticating == {k \in DOMAIN req.calls : ~IsNone(req.calls[k].result)}

\* C1: the auth callbacks are invoked in declaration order; when one returns
\* an identity, that first identity is the one recorded on the request and
\* no callback after it is invoked.
C1_FirstCallbackWins ==
    InRun =>
        LET callbacks == Operation.auth_callbacks
            calls == req.calls
        IN /\ Len(calls) <= Len(callbacks)
           /\ \A k \in DOMAIN calls : calls[k].callback = callbacks[k]
           /\ \A k \in Authenticating : k = Len(calls)
           /\ Authenticating # {} => req.auth = calls[Len(calls)].result
           /\ Authenticating = {} => req.auth = Unset

\* C1 witness: of three callbacks the first returned None, the second an
\* identity, and the request finished without the third being invoked.
C1_Witness ==
    /\ Done /\ InRun
    /\ Len(Operation.auth_callbacks) = 3
    /\ Len(req.calls) = 2
    /\ IsNone(req.calls[1].result)
    /\ req.auth = Identity("B")
    /\ "shape" \in {req.stages[k] : k \in DOMAIN req.stages}

\* Every configured callback was invoked and returned None.
AllCallbacksAbsent ==
    /\ InRun
    /\ AuthConfigured(Operation)
    /\ Len(req.calls) = Len(Operation.auth_callbacks)
    /\ Authenticating = {}

\* C2: when every auth callback returns None, run returns exactly the 401
\* {"detail": "Unauthorized"}, records no identity and runs no later stage.
C2_AllAbsentIs401 ==
    AllCallbacksAbsent =>
        /\ Done
        /\ req.response = Unauthorized
        /\ req.response.status = 401
        /\ req.response.body = PyDict([detail |-> PyStr("Unauthorized")])
        /\ req.raised = ""
        /\ req.auth = Unset
        /\ req.stages = <<"auth">>
        /\ req.csrf = "not_run"
        /\ req.resolved = <<>>
        /\ IsNone(req.args)
        /\ IsNone(req.result)

\* C2 witness: three callbacks, all returned None, the 401 was returned.
C2_Witness ==
    /\ AllCallbacksAbsent
    /\ Len(req.calls) = 3
    /\ Done
    /\ req.response.status = 401

\* The stages entered so far.
Entered == {req.stages[k] : k \in DOMAIN req.stages}
StagePosition(stage) == CHOOSE k \in DOMAIN StageOrder : StageOrder[k] = stage
\* The auth stage let the request through: it was skipped, or it ran and
\* recorded an identity.
AuthPassed ==
    IF AuthConfigured(Operation)
    THEN "auth" \in Entered /\ req.auth # Unset
    ELSE "auth" \notin Entered
\* The CSRF stage let the request through: not enforced, or checked and passed.
CsrfPassed ==
    /\ ~IsNone(Operation.api)
    /\ IF Operation.api.csrf
       THEN "csrf" \in Entered /\ req.csrf = "passed"
       ELSE "csrf" \notin Entered /\ req.csrf = "not_run"

\* C3: in Operation.run and AsyncOperation.run the stages are entered in the
\* order auth, CSRF, resolution, handler, shaping, each at most once and only
\* after every earlier stage passed; a CSRF failure returns the CSRF failure
\* response with no model resolved and the handler not invoked.
C3_StageOrder ==
    /\ \A k \in DOMAIN req.stages :
           \E p \in DOMAIN StageOrder : StageOrder[p] = req.stages[k]
    /\ \A j, k \in DOMAIN req.stages :
           j < k => StagePosition(req.stages[j]) < StagePosition(req.stages[k])
    /\ req.op = 0 => req.stages = <<>>
    /\ InRun =>
        /\ "csrf" \in Entered => AuthPassed
        /\ "resolve" \in Entered => AuthPassed /\ CsrfPassed
        /\ "handler" \in Entered =>
               /\ "resolve" \in Entered
               /\ req.errors = <<>>
               /\ Len(req.resolved) = Len(Operation.models)
        /\ "shape" \in Entered => "handler" \in Entered /\ ~IsNone(req.args)
        /\ req.csrf = "failed" =>
               /\ Done
               /\ req.response = CsrfFailure
               /\ req.stages[Len(req.stages)] = "csrf"
               /\ req.resolved = <<>>
               /\ IsNone(req.args)

\* C3 witness: an AsyncOperation, awaited, went through all five stages.
C3_Witness ==
    /\ Done /\ InRun
    /\ Operation.is_async
    /\ req.via = "await"
    /\ req.stages = StageOrder
    /\ req.response.t = "Response"

\* The errors _get_values owes for the models tried: those of each failing
\* model, in the order tried, each location behind the model's source tag.
RECURSIVE ExpectedErrors(_)
ExpectedErrors(resolved) ==
    IF resolved = <<>> THEN <<>>
    ELSE LET last == resolved[Len(resolved)]
             own == IF last.outcome.ok THEN <<>>
                    ELSE [k \in DOMAIN last.outcome.errors |->
                             [loc |-> <<last.model>> \o last.outcome.errors[k].loc,
                              msg |-> last.outcome.errors[k].msg,
                              type |-> last.outcome.errors[k].type]]
         IN ExpectedErrors(SubSeq(resolved, 1, Len(resolved) - 1)) \o own
\* The positions of the models whose resolve failed.
Failing == {k \in DOMAIN req.resolved : ~req.resolved[k].outcome.ok}
\* _get_values has returned.
ResolutionOver == InRun /\ "resolve" \in Entered /\ req.pc \in {"handler", "done"}

\* C4: _get_values tries every model, in order, whatever fails; its error
\* list is the failing models' errors in model order, each behind its own
\* source tag; run returns the 422 {"detail": errors} without invoking the
\* handler exactly when a model failed.
C4_AllErrorsCollected ==
    InRun =>
        /\ \A k \in DOMAIN req.resolved :
               req.resolved[k].model = Operation.models[k]
        /\ req.errors = ExpectedErrors(req.resolved)
        /\ ResolutionOver =>
               /\ Len(req.resolved) = Len(Operation.models)
               /\ Failing # {} <=>
                      /\ Done
                      /\ req.response =
                             Response(PyDict([detail |-> PyList(req.errors)]), 422)
                      /\ IsNone(req.args)
                      /\ "handler" \notin Entered
               /\ Failing = {} <=> "handler" \in Entered

\* C4 witness: two models, both failed, the 422 lists the errors of both.
C4_Witness ==
    /\ ResolutionOver
    /\ Failing = {1, 2}
    /\ Len(req.errors) = 3
    /\ req.errors[1].loc = <<"path", "item_id">>
    /\ req.errors[3].loc[1] = "body"
    /\ req.response.status = 422

\* The positions of the Operations whose methods contain the request's.
Matching == {i \in DOMAIN operations : req.method \in operations[i].methods}

\* C5: _find_operation returns the Operation of lowest registration index
\* whose methods contain the request's method, and no error, whenever some
\* Operation's methods contain it.
C5_FirstMatchDispatched ==
    (req.pc # "idle" /\ Matching # {}) =>
        /\ req.op \in Matching
        /\ \A i \in Matching : req.op <= i
        /\ _find_operation(operations, req.method).operation = req.op
        /\ IsNone(_find_operation(operations, req.method).error)
        /\ req.response.t # "HttpResponseNotAllowed"

\* C5 witness: two different Operations claim the method; the first got it.
C5_Witness ==
    /\ req.pc # "idle"
    /\ Matching = {1, 2}
    /\ operations[1].view_func # operations[2].view_func
    /\ req.op = 1

\* C6: when no Operation's methods contain the request's method the view
\* returns the 405 whose allowed methods are the union over all Operations,
\* and no Operation's run is executed.
C6_MethodNotAllowed ==
    (req.pc # "idle" /\ Matching = {}) =>
        /\ Done
        /\ req.response = HttpResponseNotAllowed(
               UNION {operations[i].methods : i \in DOMAIN operations})
        /\ req.response.status = 405
        /\ req.raised = ""
        /\ req.op = 0
        /\ req.stages = <<>>
        /\ req.calls = <<>>
        /\ req.auth = Unset
        /\ req.csrf = "not_run"
        /\ req.resolved = <<>>
        /\ IsNone(req.args)

\* C6 witness: a 405 whose allowed methods come from two Operations, neither
\* of which has them all.
C6_Witness ==
    /\ Done
    /\ Matching = {}
    /\ Len(operations) >= 2
    /\ req.response.t = "HttpResponseNotAllowed"
    /\ req.response.allow = {"GET", "POST"}
    /\ \A i \in DOMAIN operations : operations[i].methods # {"GET", "POST"}

\* run has called _create_response and finished.
Shaping == Done /\ InRun /\ "shape" \in Entered
\* The handler's result is a 2-tuple.
ResultIsPair == req.result.t = "tuple" /\ Len(req.result.v) = 2

\* C7: with a single response schema T and a result that is no framework
\* response, a non-tuple result gives status 200 with T's shaping of the
\* result, and a pair (s, v) gives status s with T's shaping of v alone.
C7_SchemaShaping ==
    (/\ Shaping
     /\ ~IsHttpResponse(req.result)
     /\ Operation.response_model.t = "NinjaResponseSchema") =>
        LET T == Operation.response_model
        IN /\ (req.result.t # "tuple" /\ FromOrm(T, req.result).ok) =>
                  /\ req.response = Response(FromOrm(T, req.result).v, 200)
                  /\ req.raised = ""
           /\ (ResultIsPair /\ FromOrm(T, req.result.v[2]).ok) =>
                  /\ req.response = Response(FromOrm(T, req.result.v[2]).v,
                                             req.result.v[1].v)
                  /\ req.raised = ""

\* C7 witness: the handler of an Operation declared with response str
\* returned (201, 1); the response is 201 with the shaped body "1".
C7_Witness ==
    /\ Shaping
    /\ Operation.response_model = NinjaResponseSchema(Type("str"))
    /\ req.result = PyTuple(<<PyInt(201), PyInt(1)>>)
    /\ req.response = Response(PyStr("1"), 201)

\* The status _create_response resolves from the handler's result.
ResolvedStatus == IF ResultIsPair THEN req.result.v[1].v ELSE 200

\* C8: with a status-keyed schema and a resolved status that is no declared
\* key, shaping raises ConfigError out of run and no response is produced.
C8_UndeclaredStatusRaises ==
    (/\ Shaping
     /\ ~IsHttpResponse(req.result)
     /\ Operation.response_model.t = "dictref"
     /\ ResolvedStatus \notin DOMAIN mappings[Operation.response_model.id]) =>
        /\ req.raised = "ConfigError"
        /\ req.response = NoResponse

\* C8 witness: the mapping declares 200 and 201, the handler returned
\* (404, 1), ConfigError left run.
C8_Witness ==
    /\ Shaping
    /\ Operation.response_model.t = "dictref"
    /\ req.result = PyTuple(<<PyInt(404), PyInt(1)>>)
    /\ req.raised = "ConfigError"

\* C9 as claimed: a pair (status, payload) is taken apart also when no
\* response schema was declared, the response carrying that status and
\* wrapping the payload alone.
C9_PairWithoutSchema ==
    (/\ Shaping
     /\ IsNone(Operation.response_model)
     /\ ResultIsPair) =>
        req.response = Response(req.result.v[2], req.result.v[1].v)

\* C9, amended: with no response schema declared the result is not taken
\* apart: the response has status 200 and wraps the result as returned, a
\* pair included; a pair is read as (status, payload) only when a response
\* schema is declared, and then every response produced carries its status.
C9_NoSchemaWrapsResult ==
    (Shaping /\ ~IsHttpResponse(req.result)) =>
        /\ IsNone(Operation.response_model) =>
               /\ req.response = Response(req.result, 200)
               /\ req.raised = ""
        /\ (/\ ~IsNone(Operation.response_model)
            /\ ResultIsPair
            /\ req.raised = "") =>
               /\ req.response.t = "Response"
               /\ req.response.status = req.result.v[1].v
               /\ req.response.body # req.result

\* C9 witness: no schema, the handler returned (201, 1), and the response is
\* the 200 whose body is that pair.
C9_Witness ==
    /\ Shaping
    /\ IsNone(Operation.response_model)
    /\ req.result = PyTuple(<<PyInt(201), PyInt(1)>>)
    /\ req.response.status = 200
    /\ req.response.body = req.result

\* C10: whatever response schema is declared, a handler result that is a
\* framework response is returned by run as it is, with no lookup, no
\* shaping and no ConfigError.
C10_NativePassThrough ==
    (Shaping /\ IsHttpResponse(req.result)) =>
        /\ req.response = req.result
        /\ req.raised = ""

\* C10 witness: a status-keyed schema without an entry for 302, a handler
\* that returned its own 302 response, and run returned that response.
C10_Witness ==
    /\ Shaping
    /\ Operation.response_model.t = "dictref"
    /\ req.result = HttpResponse("raw", 302)
    /\ 302 \notin DOMAIN mappings[Operation.response_model.id]
    /\ req.response = HttpResponse("raw", 302)

\* The positions of the asynchronous Operations of the PathView.
AsyncOperations == {i \in DOMAIN operations : operations[i].is_async}

\* C11: PathView.is_async is true exactly when one of PathView.operations
\* is asynchronous, also after an add whose AsyncOperation could not be
\* constructed.
C11_IsAsyncIffAnyAsync == is_async <=> AsyncOperations # {}

\* C12: across add, set_api_instance, get_view and request handling, no
\* Operation is removed or changes its is_async, and PathView.is_async, once
\* true, stays true.
C12_IsAsyncStable ==
    [][/\ is_async => is_async'
       /\ Len(operations') >= Len(operations)
       /\ \A i \in DOMAIN operations :
              operations'[i].is_async = operations[i].is_async]_vars

\* C12 witness: an asynchronous Operation was added, then a synchronous one,
\* the PathView was attached to an application, a view was handed out and a
\* request handled; the flag is still true.
C12_Witness ==
    /\ Len(operations) = 2
    /\ operations[1].is_async /\ ~operations[2].is_async
    /\ ~IsNone(operations[2].api)
    /\ views # {}
    /\ Done
    /\ is_async

\* C13: in the asynchronous view the run of a synchronous Operation goes
\* through sync_to_async, never directly, and the run of an asynchronous
\* Operation is awaited directly, never through sync_to_async.
C13_AsyncViewBridges ==
    (InRun /\ req.view = "_async_view") =>
        /\ Operation.is_async => req.via = "await"
        /\ ~Operation.is_async => req.via = "sync_to_async"
        /\ req.via \in {"await", "sync_to_async"}

\* C13 witness: on a mixed path the asynchronous view ran a synchronous
\* Operation through sync_to_async, up to its handler.
C13_Witness ==
    /\ InRun
    /\ req.view = "_async_view"
    /\ AsyncOperations # {}
    /\ ~Operation.is_async
    /\ req.via = "sync_to_async"
    /\ "handler" \in Entered

(***************************************************************************)
(* Concurrent requests.                                                    *)
(***************************************************************************)
\* What a request would carry had it run alone, from its own inputs: the
\* results its auth callbacks gave it, the outcomes of its resolve calls, the
\* result its handler returned.
RECURSIVE IdentityAlone(_)
IdentityAlone(calls) ==
    IF calls = <<>> THEN Unset
    ELSE IF ~IsNone(Head(calls).result) THEN Head(calls).result
    ELSE IdentityAlone(Tail(calls))
RECURSIVE ValuesAlone(_)
ValuesAlone(resolved) ==
    IF resolved = <<>> THEN <<>>
    ELSE LET last == resolved[Len(resolved)]
             before == ValuesAlone(SubSeq(resolved, 1, Len(resolved) - 1))
         IN IF last.outcome.ok THEN last.outcome.data @@ before ELSE before
\* What the view hands back for request r run alone: a response, or the
\* exception that leaves it.
OutcomeAlone(r) ==
    LET found == _find_operation(operations, r.method)
        op == operations[found.operation]
        errors == ExpectedErrors(r.resolved)
        created == _create_response(ResponseModelOf(op), r.result)
        out(response, raised) == [response |-> response, raised |-> raised]
    IN IF found.operation = 0 THEN out(found.error, "")
       ELSE IF r.view = "_sync_view" /\ op.is_async THEN out(Coroutine, "")
       ELSE IF op.auth_callbacks # <<>> /\ IdentityAlone(r.calls) = Unset
            THEN IF Len(r.calls) = Len(op.auth_callbacks)
                 THEN out(Unauthorized, "")
                 ELSE out(NoResponse, "TypeError")
       ELSE IF IsNone(op.api) THEN out(NoResponse, "AttributeError")
       ELSE IF r.csrf = "failed" THEN out(CsrfFailure, "")
       ELSE IF errors # <<>>
            THEN out(Response(PyDict([detail |-> PyList(errors)]), 422), "")
       ELSE IF created.ok THEN out(created.v, "")
       ELSE out(NoResponse, created.exception)
\* Request r carries what it would carry alone.
Isolated(r) ==
    /\ r.auth = IdentityAlone(r.calls)
    /\ r.values = ValuesAlone(r.resolved)
    /\ r.errors = ExpectedErrors(r.resolved)
    /\ r.pc = "done" =>
           [response |-> r.response, raised |-> r.raised] = OutcomeAlone(r)
\* The fields of the PathView and of its Operations.
SharedConfiguration == <<operations, is_async, api, views, csrf_exempt, mappings>>

\* C14: whatever the interleaving of two requests on one PathView, a step of
\* request handling writes no field of the PathView or of an Operation and
\* touches only the request that is running; each request's identity,
\* values, errors and response are those it would get alone.
C14_RequestsIsolated ==
    /\ [](Isolated(req) /\ Isolated(other))
    /\ [][/\ UNCHANGED SharedConfiguration
          /\ other' = other \/ (other' = req /\ req' = other)]_vars
\* One request ended with a 422 while another, on the same asynchronous
\* Operation, is suspended in its handler with its own values.
C14_Witness ==
    /\ Done /\ InRun /\ Operation.is_async
    /\ req.errors # <<>> /\ req.response # NoResponse
    /\ other.op = req.op /\ other.pc = "handler"
    /\ other.errors = <<>> /\ DOMAIN other.values # {}

(***************************************************************************)
(* Auth inheritance.                                                       *)
(***************************************************************************)
\* The Operations set_api_instance has attached to an application.
Attached == {i \in DOMAIN operations : ~IsNone(operations[i].api)}
\* The chain __init__ leaves on an Operation declared with auth.
ChainAfterInit(auth) == _set_auth(<<>>, auth)

\* C15: an attached Operation declared with auth NOT_SET has the auth of
\* its application as its callback chain when that application declares
\* auth; an Operation declared with explicit auth has the chain
\* construction gave it, attached or not; one declared with auth None has
\* no callbacks, and no request to it invokes a callback, enters the auth
\* stage or carries an identity.
C15_AuthInheritance ==
    /\ \A i \in Attached :
           IsNotSet(operations[i].auth_param) /\ ~IsNotSet(operations[i].api.auth)
               => operations[i].auth_callbacks = <<operations[i].api.auth>>
    /\ \A i \in DOMAIN operations :
           /\ ~IsNotSet(operations[i].auth_param)
                  => operations[i].auth_callbacks =
                         ChainAfterInit(operations[i].auth_param)
           /\ IsNone(operations[i].auth_param)
                  => operations[i].auth_callbacks = <<>>
    /\ (InRun /\ IsNone(Operation.auth_param)) =>
           /\ req.calls = <<>>
           /\ "auth" \notin Entered
           /\ req.auth = Unset
\* An application declaring auth is attached to an Operation declared with
\* auth NOT_SET and to one declared with auth None, and a request to the
\* latter has reached its handler.
C15_Witness ==
    /\ \E i \in Attached :
           /\ IsNotSet(operations[i].auth_param)
           /\ operations[i].auth_callbacks = <<Callable("B")>>
    /\ InRun /\ req.op \in Attached
    /\ IsNone(Operation.auth_param)
    /\ Operation.api.auth = Callable("B")
    /\ "handler" \in Entered

\* C16: once an Operation is attached to an application, a later
\* set_api_instance leaves its auth callbacks as they are.
C16_InheritanceOneTime ==
    [][\A i \in Attached :
           operations'[i].auth_callbacks = operations[i].auth_callbacks]_vars

(***************************************************************************)
(* Operations without auth.                                                *)
(***************************************************************************)
\* The request is to an Operation with no auth callback configured.
NoAuthConfigured == InRun /\ Operation.auth_callbacks = <<>>
\* _run_checks has gone past its CSRF part.
PastCsrf == req.pc \in {"resolve", "handler"} \/ Done

\* C17: a request to an Operation with no auth callbacks invokes no
\* callback, never enters the auth stage, carries no identity and gets no
\* 401; its first step is to the CSRF stage, which runs check_csrf exactly
\* when the application enforces CSRF, and past it the request is in
\* parameter resolution unless check_csrf failed (an Operation without an
\* application has no CSRF policy to read; a coroutine not awaited runs
\* nothing).
C17_NoAuthSkipsAuthentication ==
    NoAuthConfigured =>
        /\ req.calls = <<>>
        /\ "auth" \notin Entered
        /\ req.auth = Unset
        /\ req.response # Unauthorized
        /\ req.raised # "TypeError"
        /\ (PastCsrf /\ req.response # Coroutine /\ ~IsNone(Operation.api)) =>
               /\ Operation.api.csrf <=> "csrf" \in Entered
               /\ Operation.api.csrf <=> req.csrf \in {"passed", "failed"}
               /\ req.csrf = "failed" =>
                      req.response = CsrfFailure /\ "resolve" \notin Entered
               /\ req.csrf # "failed" =>
                      req.pc = "resolve" \/ "resolve" \in Entered
        /\ (PastCsrf /\ req.response # Coroutine /\ IsNone(Operation.api)) =>
               req.raised = "AttributeError"
\* A request to an Operation without auth callbacks, attached to an
\* application that declares auth and enforces CSRF, reached its handler.
C17_Witness ==
    /\ NoAuthConfigured /\ ~IsNone(Operation.api)
    /\ Operation.api.csrf /\ ~IsNotSet(Operation.api.auth)
    /\ req.csrf = "passed" /\ "resolve" \in Entered /\ "handler" \in Entered

(***************************************************************************)
(* Views handed out before a later add.                                    *)
(***************************************************************************)
\* C18: a view that dispatches a request to an asynchronous Operation is
\* the asynchronous view and awaits its run.
C18_AsyncOperationAwaited ==
    (InRun /\ Operation.is_async) =>
        req.view = "_async_view" /\ req.via = "await"

(***************************************************************************)
(* The callback chain of a declaration.                                    *)
(***************************************************************************)
\* The callables a declaration's auth names, in order.
DeclaredCallables(auth) ==
    IF IsSequence(auth) THEN auth.v
    ELSE IF auth.t = "callable" THEN <<auth>>
    ELSE <<>>

\* C19: the chain of an Operation declared with explicit auth is the
\* callables of the declaration, element for element (none for the empty
\* sequence), and every element of a chain is a callable.
C19_ChainIsDeclaredCallables ==
    \A i \in DOMAIN operations :
        /\ ~IsNotSet(operations[i].auth_param) =>
               operations[i].auth_callbacks =
                   DeclaredCallables(operations[i].auth_param)
        /\ \A k \in DOMAIN operations[i].auth_callbacks :
               operations[i].auth_callbacks[k].t = "callable"

(***************************************************************************)
(* The caller's status -> type mapping.                                    *)
(***************************************************************************)
\* C20: the mapping a caller passed to add still maps each status to the
\* type declared, and the schema an Operation holds for a status wraps that
\* type once.
C20_MappingLeftAsDeclared ==
    /\ \A m \in MappingNames : mappings[m] = DeclaredMapping(m)
    /\ \A i \in DOMAIN operations :
           operations[i].response_model.t = "dictref" =>
               \A status \in DOMAIN DeclaredMapping(operations[i].response_model.id) :
                   ResponseModelOf(operations[i]).v[status] =
                       NinjaResponseSchema(
                           DeclaredMapping(operations[i].response_model.id)[status])

=============================================================================
